---- MODULE Spec2Model ----
(***************************************************************************)
(* Model of rss_scraper.py: the RSS parser rss_parser (xml text, optional  *)
(* item limit, json flag -> list of output lines) and the command-line     *)
(* entry point main that fetches a feed, parses it and prints the result.  *)
(*                                                                         *)
(* Python values are represented as follows.                               *)
(*   Optional[T]  : a sequence of length 0 (None) or 1 (the value).        *)
(*   str          : a TLA+ string; f-strings and str.join use \o.          *)
(*   Element      : [tag, text, children]; text is Optional[str] (the      *)
(*                  ElementTree parser gives None for an element without   *)
(*                  text), children is the sequence of child elements.     *)
(*   exception    : [kind, args] as in Python's e.args.                    *)
(*   json.dumps   : the serialised document is kept as its token tree:     *)
(*                  an object is the ordered sequence of <<key, value>>    *)
(*                  members, a value is <<"null">>, <<"string", s>> or     *)
(*                  <<"array", seq>>.                                      *)
(***************************************************************************)
EXTENDS Integers, Sequences, FiniteSets, TLC

VARIABLES pc, argv, web, args, xml, parsed, stdout, caught, retval, escaped

vars == <<pc, argv, web, args, xml, parsed, stdout, caught, retval, escaped>>

(* ------------------------------ bounds -------------------------------- *)

MaxItems == 3
MaxLimit == 4
MaxCats == 2

(* --------------------------- Python values ---------------------------- *)

None == <<>>
Some(v) == <<v>>

Exc(kind, eargs) == [kind |-> kind, args |-> eargs]
NoExc == Exc("", <<>>)

Returned(v) == [ok |-> TRUE, value |-> v, exc |-> NoExc]
Raised(e) == [ok |-> FALSE, value |-> <<>>, exc |-> e]

\* class UnhandledException(Exception): raise UnhandledException(e)
UnhandledException(e) == Exc("UnhandledException", <<e>>)

\* truth value of an Optional[str]: None and '' are false
Truthy(t) == t # None /\ t[1] # ""

\* f"{t}" for an Optional[str]
Fmt(t) == IF t = None THEN "None" ELSE t[1]

RECURSIVE Join(_, _)
\* sep.join(strs)
Join(sep, strs) ==
  IF Len(strs) = 0 THEN ""
  ELSE IF Len(strs) = 1 THEN strs[1]
  ELSE strs[1] \o sep \o Join(sep, Tail(strs))

MinOf(a, b) == IF a <= b THEN a ELSE b
MaxOf(a, b) == IF a >= b THEN a ELSE b

\* s[:k + 1] in place of s[:k]
PySlice_OneMore(s, k) ==
  IF k + 1 >= 0 THEN SubSeq(s, 1, MinOf(k + 1, Len(s)))
  ELSE SubSeq(s, 1, MaxOf(0, Len(s) + k + 1))

\* s[:k] for a Python list s and an integer k
PySlice(s, k) ==
  IF k >= 0 THEN SubSeq(s, 1, MinOf(k, Len(s)))
  ELSE SubSeq(s, 1, MaxOf(0, Len(s) + k))

(* ------------------------ xml.etree.ElementTree ----------------------- *)

El(tag, text, children) == [tag |-> tag, text |-> text, children |-> children]

\* An input text is either not well-formed (the parser's diagnostic is
\* diag) or well-formed with the element tree root.
Malformed(d) == [wf |-> FALSE, diag |-> d, root |-> None]
WellFormed(r) == [wf |-> TRUE, diag |-> "", root |-> Some(r)]

\* ET.fromstring(xml)
FromString(x) ==
  IF x.wf THEN Returned(x.root[1])
  ELSE Raised(Exc("ParseError", <<x.diag>>))

\* element.find(tag): the first child with that tag, or None
Find(el, tag) ==
  LET idx == {i \in 1..Len(el.children) : el.children[i].tag = tag}
  IN IF idx = {} THEN None
     ELSE Some(el.children[CHOOSE i \in idx : \A j \in idx : i <= j])

HasTag(c, tag) == c.tag = tag

\* element.findall(tag): the children with that tag in document order
FindAll(el, tag) == SelectSeq(el.children, LAMBDA c : HasTag(c, tag))

(* ------------------------------ rss_parser ---------------------------- *)

\* [cat.text for cat in categories if cat.text]
CatTexts(categories) ==
  LET kept == SelectSeq(categories, LAMBDA c : Truthy(c.text))
  IN [i \in 1..Len(kept) |-> kept[i].text[1]]

\* el.find(tag).text if el.find(tag) is not None else ""
TextOrEmpty(el, tag) ==
  IF Find(el, tag) # None THEN Find(el, tag)[1].text ELSE Some("")

\* json.dumps of a str or None
JsonValue(t) == IF t = None THEN <<"null">> ELSE <<"string", t[1]>>

\* item_dict with the author added
ItemDict_WithAuthor(item) ==
  << <<"title", JsonValue(TextOrEmpty(item, "title"))>>,
     <<"author", JsonValue(TextOrEmpty(item, "author"))>>,
     <<"pubDate", JsonValue(TextOrEmpty(item, "pubDate"))>>,
     <<"link", JsonValue(TextOrEmpty(item, "link"))>>,
     <<"description", JsonValue(TextOrEmpty(item, "description"))>> >>

\* item_dict of the JSON branch
ItemDict(item) ==
  << <<"title", JsonValue(TextOrEmpty(item, "title"))>>,
     <<"pubDate", JsonValue(TextOrEmpty(item, "pubDate"))>>,
     <<"link", JsonValue(TextOrEmpty(item, "link"))>>,
     <<"description", JsonValue(TextOrEmpty(item, "description"))>> >>

\* the JSON branch: [json.dumps(json_output, indent=2, ensure_ascii=False)]
JsonOutput(channel, title, link, items) ==
  << << <<"title", JsonValue(title)>>,
        <<"link", JsonValue(link)>>,
        <<"description", JsonValue(TextOrEmpty(channel, "description"))>>,
        <<"items", <<"array", [i \in 1..Len(items) |-> ItemDict(items[i])]>> >> >> >>

\* the optional line without the test of el.text
OptionalLine_NoTextTest(channel, tag, prefix) ==
  LET el == Find(channel, tag)
  IN IF el # None THEN <<prefix \o Fmt(el[1].text)>> ELSE <<>>

\* el = channel.find(tag); if el is not None and el.text: output.append(...)
OptionalLine(channel, tag, prefix) ==
  LET el == Find(channel, tag)
  IN IF el # None /\ Truthy(el[1].text) THEN <<prefix \o el[1].text[1]>> ELSE <<>>

\* the channel header of the text branch
HeaderLines(channel, title, link, cats) ==
  <<"Feed: " \o Fmt(title), "Link: " \o Fmt(link)>>
  \o (IF Len(cats) > 0 THEN <<"Categories: " \o Join(", ", cats)>> ELSE <<>>)
  \o OptionalLine(channel, "lastBuildDate", "Last Build Date: ")
  \o OptionalLine(channel, "pubDate", "Publish Date: ")
  \o OptionalLine(channel, "language", "Language: ")
  \o OptionalLine(channel, "managingEditor", "Editor: ")
  \o OptionalLine(channel, "description", "Description: ")

\* the body of the loop over the kept items of the text branch
ItemLines(item) ==
  LET title_text == TextOrEmpty(item, "title")
      author == TextOrEmpty(item, "author")
      pub_date == TextOrEmpty(item, "pubDate")
      link == TextOrEmpty(item, "link")
      categories_text == Join(", ", CatTexts(FindAll(item, "category")))
      description == TextOrEmpty(item, "description")
  IN <<"Title: " \o Fmt(title_text)>>
     \o (IF Truthy(author) THEN <<"Author: " \o Fmt(author)>> ELSE <<>>)
     \o (IF Truthy(pub_date) THEN <<"Published: " \o Fmt(pub_date)>> ELSE <<>>)
     \o (IF Truthy(link) THEN <<"Link: " \o Fmt(link)>> ELSE <<>>)
     \o (IF categories_text # "" THEN <<"Categories: " \o categories_text>> ELSE <<>>)
     \o <<"">>
     \o <<"Description: " \o Fmt(description)>>
     \o <<"">>

RECURSIVE AllItemLines(_)
\* for item in items: ...
AllItemLines(items) ==
  IF Len(items) = 0 THEN <<>>
  ELSE ItemLines(Head(items)) \o AllItemLines(Tail(items))

\* a try block without the except clause
ParserExcept_Missing(e) == e

\* the exception a try block lets through: except ET.ParseError as e
ParserExcept(e) ==
  IF e.kind = "ParseError" THEN UnhandledException(e) ELSE e

\* attribute access on None
AttributeError(attr) ==
  Exc("AttributeError", <<"'NoneType' object has no attribute '" \o attr \o "'">>)

\* rss_parser(xml, limit, json)
RssParser(x, limit, json) ==
  LET tree == FromString(x)
  IN IF ~tree.ok THEN Raised(ParserExcept(tree.exc))
     ELSE
       LET channel == Find(tree.value, "channel")
       IN IF channel = None THEN Raised(ParserExcept(AttributeError("find")))
          ELSE IF Find(channel[1], "title") = None
                 \/ Find(channel[1], "link") = None
            THEN Raised(ParserExcept(AttributeError("text")))
          ELSE
            LET title == Find(channel[1], "title")[1].text
                link == Find(channel[1], "link")[1].text
                cats == CatTexts(FindAll(channel[1], "category"))
                all == FindAll(channel[1], "item")
                items == IF limit # None THEN PySlice(all, limit[1]) ELSE all
            IN IF json
                 THEN Returned(JsonOutput(channel[1], title, link, items))
                 ELSE Returned(HeaderLines(channel[1], title, link, cats)
                               \o AllItemLines(items))

(* ------------------------------- inputs ------------------------------- *)

Leaf(tag, text) == El(tag, text, <<>>)

\* How a generated document carries an optional element: not at all, with
\* empty text, or with the text "x".
Shapes == {"absent", "empty", "x"}

FieldEl(tag, shape) ==
  IF shape = "absent" THEN <<>>
  ELSE IF shape = "empty" THEN <<Leaf(tag, None)>>
  ELSE <<Leaf(tag, Some(shape))>>

RECURSIVE FieldEls(_, _)
FieldEls(tags, f) ==
  IF Len(tags) = 0 THEN <<>>
  ELSE FieldEl(Head(tags), f[Head(tags)]) \o FieldEls(Tail(tags), f)

ChannelTags == <<"title", "link", "description", "lastBuildDate", "pubDate",
                 "language", "managingEditor">>
ItemTags == <<"title", "author", "pubDate", "link", "description">>

Range(s) == {s[i] : i \in 1..Len(s)}

Feed(channelChildren) ==
  WellFormed(El("rss", None, <<El("channel", None, channelChildren)>>))

\* the k-th item of a feed whose items differ in every field
PlainItem(k) ==
  El("item", None,
     <<Leaf("title", Some("t" \o ToString(k))),
       Leaf("author", Some("A" \o ToString(k))),
       Leaf("link", Some("l" \o ToString(k))),
       Leaf("category", Some("c")),
       Leaf("description", Some("d" \o ToString(k)))>>)

PlainHead ==
  <<Leaf("title", Some("T")), Leaf("link", Some("L")),
    Leaf("description", Some("D"))>>

\* category texts: none, whitespace only, and two proper names
CatShapes == {None, Some(" "), Some("a"), Some("b")}

CatSeqs == UNION {[1..n -> CatShapes] : n \in 0..MaxCats}

CatEls(cs) == [i \in 1..Len(cs) |-> Leaf("category", cs[i])]

\* feeds with n items, n = 0..MaxItems
CountFeeds ==
  {Feed(PlainHead \o <<Leaf("category", Some("c"))>>
        \o [k \in 1..n |-> PlainItem(k)]) : n \in 0..MaxItems}

\* feeds whose channel fields take every shape
ChannelFeeds ==
  {Feed(FieldEls(ChannelTags, f) \o <<Leaf("category", Some("c")), PlainItem(1)>>)
     : f \in [Range(ChannelTags) -> Shapes]}

\* feeds whose first item's fields take every shape
ItemFeeds ==
  {Feed(PlainHead \o <<El("item", None, FieldEls(ItemTags, f)), PlainItem(2)>>)
     : f \in [Range(ItemTags) -> Shapes]}

\* feeds whose channel and first item carry every sequence of categories
CatFeeds ==
  {Feed(PlainHead \o CatEls(cc)
        \o <<El("item", None, <<Leaf("title", Some("t1"))>> \o CatEls(ic)),
             PlainItem(2)>>)
     : cc \in CatSeqs, ic \in CatSeqs}

\* well-formed documents without a channel, and texts that are not XML
OddTexts ==
  {WellFormed(El("rss", None, <<>>)),
   WellFormed(El("html", None, <<Leaf("title", Some("T"))>>)),
   Malformed("no element found: line 1, column 14"),
   Malformed("mismatched tag: line 1, column 20")}

URL == "https://example.org/feed.xml"

\* a --limit argument: its text is an integer literal or it is not
IntArg(k) == [isInt |-> TRUE, val |-> k]
BadArg == [isInt |-> FALSE, val |-> 0]

Inputs ==
  [source : {Some(URL)}, json : BOOLEAN,
   limit : {None} \cup {Some(IntArg(k)) : k \in (0 - MaxLimit)..MaxLimit},
   web : {Some(d) : d \in CountFeeds \cup OddTexts}]
  \cup
  [source : {Some(URL)}, json : BOOLEAN,
   limit : {None, Some(IntArg(1))},
   web : {Some(d) : d \in ChannelFeeds \cup ItemFeeds \cup CatFeeds}]
  \cup
  [source : {None, Some(URL)}, json : BOOLEAN,
   limit : {None, Some(IntArg(2)), Some(BadArg)},
   web : {None} \cup {Some(d) : d \in OddTexts}]

(* -------------------------------- main -------------------------------- *)

NoArgs == [source |-> None, json |-> FALSE, limit |-> None]

Init ==
  /\ \E inp \in Inputs :
       /\ argv = [source |-> inp.source, json |-> inp.json, limit |-> inp.limit]
       /\ web = inp.web
  /\ pc = "parse_args"
  /\ args = NoArgs
  /\ xml = None
  /\ parsed = None
  /\ stdout = <<>>
  /\ caught = None
  /\ retval = None
  /\ escaped = None

\* args = parser.parse_args(argv), --limit has type=int
ParseArgs ==
  /\ pc = "parse_args"
  /\ IF argv.limit # None /\ ~argv.limit[1].isInt
       THEN /\ escaped' = Some(Exc("SystemExit", <<"2">>))
            /\ pc' = "raised"
            /\ UNCHANGED args
       ELSE /\ args' = [source |-> argv.source, json |-> argv.json,
                        limit |-> IF argv.limit = None THEN None
                                  ELSE Some(argv.limit[1].val)]
            /\ pc' = "fetch"
            /\ UNCHANGED escaped
  /\ UNCHANGED <<argv, web, xml, parsed, stdout, caught, retval>>

\* requests.get(source): the outcome of the HTTP fetch
RequestsGet(source) ==
  IF source = None
    THEN Raised(Exc("MissingSchema", <<"Invalid URL 'None': No scheme supplied">>))
  ELSE IF web = None
    THEN Raised(Exc("ConnectionError", <<"Max retries exceeded">>))
  ELSE Returned(web[1])

\* xml = requests.get(args.source).text, outside the try block
Fetch ==
  /\ pc = "fetch"
  /\ LET r == RequestsGet(args.source)
     IN IF r.ok
          THEN /\ xml' = Some(r.value)
               /\ pc' = "parse"
               /\ UNCHANGED escaped
          ELSE /\ escaped' = Some(r.exc)
               /\ pc' = "raised"
               /\ UNCHANGED xml
  /\ UNCHANGED <<argv, web, args, parsed, stdout, caught, retval>>

\* rss_parser(xml, args.limit, args.json) inside the try block
CallRssParser ==
  /\ pc = "parse"
  /\ LET r == RssParser(xml[1], args.limit, args.json)
     IN /\ parsed' = Some(r)
        /\ IF r.ok
             THEN pc' = "print" /\ UNCHANGED caught
             ELSE pc' = "except" /\ caught' = Some(r.exc)
  /\ UNCHANGED <<argv, web, args, xml, stdout, retval, escaped>>

\* print("\n".join(...)); return 0
PrintOk ==
  /\ pc = "print"
  /\ stdout' = Append(stdout, Join("\n", parsed[1].value))
  /\ retval' = Some(0)
  /\ pc' = "done"
  /\ UNCHANGED <<argv, web, args, xml, parsed, caught, escaped>>

\* print raises (the standard output is closed or cannot encode the text)
PrintFail ==
  /\ pc = "print"
  /\ caught' = Some(Exc("OSError", <<"write failed">>))
  /\ pc' = "except"
  /\ UNCHANGED <<argv, web, args, xml, parsed, stdout, retval, escaped>>

\* except Exception as e: raise UnhandledException(e)
MainExcept ==
  /\ pc = "except"
  /\ escaped' = Some(UnhandledException(caught[1]))
  /\ pc' = "raised"
  /\ UNCHANGED <<argv, web, args, xml, parsed, stdout, caught, retval>>

Next ==
  \/ ParseArgs
  \/ Fetch
  \/ CallRssParser
  \/ PrintOk
  \/ PrintFail
  \/ MainExcept

Spec == Init /\ [][Next]_vars

TypeOK ==
  /\ pc \in {"parse_args", "fetch", "parse", "print", "except", "done", "raised"}
  /\ Len(stdout) <= 1
  /\ (pc = "done") = (retval # None)
  /\ (pc = "raised") = (escaped # None)

(* ----------------------- observations of a run ------------------------ *)

\* rss_parser has been called and has returned or raised
Called == parsed # None

\* rss_parser has returned its list
ReturnedOk == Called /\ parsed[1].ok

\* the channel's item elements of a document rss_parser accepts
DocChannel == Find(xml[1].root[1], "channel")[1]
DocItems == FindAll(DocChannel, "item")

\* the item objects of the JSON document rss_parser returned
JsonItems == parsed[1].value[1][4][2][2]

\* the strings the generated documents can put after a line's label
Words ==
  {"None", "", " ", "x", "a", "b", "c", "T", "L", "D"}
  \cup UNION {{"t" \o ToString(k), "A" \o ToString(k), "l" \o ToString(k),
               "d" \o ToString(k)} : k \in 1..MaxItems}
CatJoins ==
  {Join(", ", cs) : cs \in UNION {[1..n -> {" ", "a", "b"}] : n \in 1..MaxCats}}
Values == Words \cup CatJoins

Prefixes ==
  {"Feed: ", "Link: ", "Categories: ", "Last Build Date: ", "Publish Date: ",
   "Language: ", "Editor: ", "Description: ", "Title: ", "Author: ",
   "Published: "}

LinesOf == [p \in Prefixes |-> {p \o v : v \in Values}]

\* the label a line of the text output starts with ("" for the empty line)
LabelOf(line) == IF line = "" THEN "" ELSE CHOOSE p \in Prefixes : line \in LinesOf[p]

Labels(lines) == [i \in 1..Len(lines) |-> LabelOf(lines[i])]

Count(lines, label) == Cardinality({i \in 1..Len(lines) : LabelOf(lines[i]) = label})

\* the limit rss_parser was called with
Limit == args.limit

(* ------------------------------- claims ------------------------------- *)

\* C1: for a limit that is present and <= 0, rss_parser renders no item at
\* all: the JSON items list is empty and the text output has no item block.
C1_NonPositiveLimitRendersNothing ==
  (ReturnedOk /\ Limit # None /\ Limit[1] <= 0) =>
     IF args.json THEN Len(JsonItems) = 0
     ELSE Count(parsed[1].value, "Title: ") = 0 /\ Count(parsed[1].value, "") = 0

\* the number of items the claim promises for the call
PromisedCount ==
  IF Limit = None THEN Len(DocItems) ELSE MinOf(Limit[1], Len(DocItems))

\* the lines of the text output that carry an item title, in output order
TitleLines == SelectSeq(parsed[1].value, LAMBDA l : LabelOf(l) = "Title: ")

\* C2: with limit >= 1 the first min(limit, n) items are rendered, with no
\* limit all n, in document order, in both output modes.
C2_RendersPrefixOfItems ==
  (ReturnedOk /\ (Limit = None \/ Limit[1] >= 1)) =>
     IF args.json
       THEN /\ Len(JsonItems) = PromisedCount
            /\ \A i \in 1..PromisedCount :
                 JsonItems[i][1] = <<"title", JsonValue(TextOrEmpty(DocItems[i], "title"))>>
       ELSE /\ Len(TitleLines) = PromisedCount
            /\ Count(parsed[1].value, "") = 2 * PromisedCount
            /\ \A i \in 1..PromisedCount :
                 TitleLines[i] = "Title: " \o Fmt(TextOrEmpty(DocItems[i], "title"))

C2_Witness ==
  /\ ReturnedOk /\ Limit = Some(2) /\ Len(DocItems) = 3
  /\ ~args.json /\ Len(TitleLines) = 2

\* C4: in JSON mode the channel description and every item's title, pubDate,
\* link and description are strings, never null.
C4_JsonValuesAreStrings ==
  (ReturnedOk /\ args.json) =>
     /\ parsed[1].value[1][3][2][1] = "string"
     /\ \A i \in 1..Len(JsonItems) : \A k \in 1..4 : JsonItems[i][k][2][1] = "string"

\* C5: on a text that is not well-formed XML rss_parser raises
\* UnhandledException carrying the XML parser's error, returns no line, and
\* nothing is printed, whatever the limit and the output mode.
C5_MalformedRaisesWrapped ==
  (Called /\ ~xml[1].wf) =>
     /\ ~parsed[1].ok
     /\ parsed[1].value = <<>>
     /\ parsed[1].exc.kind = "UnhandledException"
     /\ parsed[1].exc.args[1].kind = "ParseError"
     /\ parsed[1].exc.args[1].args = <<xml[1].diag>>
     /\ stdout = <<>>

C5_Witness ==
  /\ Called /\ ~xml[1].wf /\ args.json /\ Limit = Some(2)
  /\ parsed[1].exc.kind = "UnhandledException"

\* C6: an exception that leaves main after the arguments were parsed is an
\* UnhandledException, and main returns 0 only when nothing failed.
C6_OnlyWrappedErrorsEscape ==
  /\ (escaped # None /\ escaped[1].kind # "SystemExit") =>
        escaped[1].kind = "UnhandledException"
  /\ retval = Some(0) => (caught = None /\ escaped = None)

\* C10: on every well-formed document rss_parser returns a list and raises
\* nothing, also when channel, title or link are missing.
C10_WellFormedNeverRaises ==
  (Called /\ xml[1].wf) => parsed[1].ok

(* ----------------- claims about fields and line order ----------------- *)

ChannelOptTags == {"description", "lastBuildDate", "pubDate", "language",
                   "managingEditor"}
ItemOptTags == {"title", "author", "pubDate", "link", "description"}

RemoveAt(s, i) == SubSeq(s, 1, i - 1) \o SubSeq(s, i + 1, Len(s))

\* the positions of the children of el that are empty elements with a tag of tags
EmptyAt(el, tags) ==
  {i \in 1..Len(el.children) :
     el.children[i].tag \in tags /\ el.children[i].text = None}

\* the document with the children of its channel replaced
WithChannelChildren(doc, cs) ==
  LET root == doc.root[1]
      ci == CHOOSE i \in 1..Len(root.children) :
              /\ root.children[i].tag = "channel"
              /\ \A j \in 1..(i - 1) : root.children[j].tag # "channel"
  IN WellFormed([root EXCEPT !.children[ci].children = cs])

\* the documents that differ from doc by leaving out one optional element
\* that doc carries with empty text
OmitOneEmpty(doc) ==
  LET ch == Find(doc.root[1], "channel")[1]
  IN {WithChannelChildren(doc, RemoveAt(ch.children, i))
        : i \in EmptyAt(ch, ChannelOptTags)}
     \cup
     UNION {{WithChannelChildren(doc,
               [ch.children EXCEPT ![j].children = RemoveAt(ch.children[j].children, i)])
               : i \in EmptyAt(ch.children[j], ItemOptTags)}
            : j \in {j \in 1..Len(ch.children) : ch.children[j].tag = "item"}}

\* C3: a document that carries an optional field with empty text and the
\* same document without that element give the same output, in both modes.
C3_EmptyEqualsMissing ==
  ReturnedOk =>
     \A d \in OmitOneEmpty(xml[1]) : RssParser(d, Limit, args.json) = parsed[1]

\* the items rss_parser keeps after applying the limit
Kept == IF Limit = None THEN DocItems ELSE PySlice(DocItems, Limit[1])

\* the element el has a child tag whose text is present and not empty
Present(el, tag) ==
  /\ Find(el, tag) # None
  /\ Find(el, tag)[1].text # None
  /\ Find(el, tag)[1].text[1] # ""

Keys(object) == [i \in 1..Len(object) |-> object[i][1]]

\* C7: the JSON output is one document with the keys title, link,
\* description, items, every item object has the keys title, pubDate, link,
\* description, in that order and no other key; the text output has an
\* "Author:" line for every kept item that has an author.
C7_JsonShapeAndTextAuthor ==
  ReturnedOk =>
     IF args.json
       THEN /\ Len(parsed[1].value) = 1
            /\ Keys(parsed[1].value[1]) = <<"title", "link", "description", "items">>
            /\ parsed[1].value[1][4][2][1] = "array"
            /\ \A i \in 1..Len(JsonItems) :
                 Keys(JsonItems[i]) = <<"title", "pubDate", "link", "description">>
       ELSE \A i \in 1..Len(Kept) :
              Present(Kept[i], "author") =>
                 \E n \in 1..Len(parsed[1].value) :
                    parsed[1].value[n] = "Author: " \o Find(Kept[i], "author")[1].text[1]

C7_Witness ==
  /\ ReturnedOk /\ args.json /\ Len(JsonItems) = 2
  /\ \A i \in 1..2 : Present(DocItems[i], "author")
  /\ Find(DocChannel, "category") # None
  /\ Find(DocItems[1], "category") # None

WhitespaceOnly == {" "}

\* the texts of the category children of el that are neither empty nor
\* whitespace only, in document order
ProperCats(el) ==
  LET good == SelectSeq(FindAll(el, "category"),
                        LAMBDA c : c.text # None /\ c.text[1] # ""
                                   /\ c.text[1] \notin WhitespaceOnly)
  IN [i \in 1..Len(good) |-> good[i].text[1]]

\* the positions of the "Title:" lines of the text output
TitleIdx == {i \in 1..Len(parsed[1].value) : LabelOf(parsed[1].value[i]) = "Title: "}

BlockStart(k) == CHOOSE i \in TitleIdx : Cardinality({j \in TitleIdx : j < i}) = k - 1
BlockEnd(k) ==
  IF k = Cardinality(TitleIdx) THEN Len(parsed[1].value) ELSE BlockStart(k + 1) - 1

\* the lines of the text output before the first item block
TextHeader ==
  SubSeq(parsed[1].value, 1,
         IF TitleIdx = {} THEN Len(parsed[1].value) ELSE BlockStart(1) - 1)

\* the lines of the k-th item block of the text output
TextBlock(k) == SubSeq(parsed[1].value, BlockStart(k), BlockEnd(k))

\* lines has a "Categories:" line exactly when el has a proper category, and
\* the line joins the proper categories of el
CategoriesLineFor(lines, el) ==
  IF Len(ProperCats(el)) = 0 THEN Count(lines, "Categories: ") = 0
  ELSE /\ Count(lines, "Categories: ") = 1
       /\ \E i \in 1..Len(lines) :
            lines[i] = "Categories: " \o Join(", ", ProperCats(el))

\* C8: the "Categories:" line of the channel and of every kept item joins
\* the categories whose text is neither empty nor whitespace only, and is
\* left out when there is none.
C8_CategoriesDropBlankText ==
  (ReturnedOk /\ ~args.json) =>
     /\ CategoriesLineFor(TextHeader, DocChannel)
     /\ \A k \in 1..Cardinality(TitleIdx) : CategoriesLineFor(TextBlock(k), DocItems[k])

OptLabel(cond, label) == IF cond THEN <<label>> ELSE <<>>

HasCategory(el) ==
  \E i \in 1..Len(el.children) :
     /\ el.children[i].tag = "category"
     /\ el.children[i].text # None
     /\ el.children[i].text[1] # ""

ExpectedHeader ==
  <<"Feed: ", "Link: ">>
  \o OptLabel(HasCategory(DocChannel), "Categories: ")
  \o OptLabel(Present(DocChannel, "lastBuildDate"), "Last Build Date: ")
  \o OptLabel(Present(DocChannel, "pubDate"), "Publish Date: ")
  \o OptLabel(Present(DocChannel, "language"), "Language: ")
  \o OptLabel(Present(DocChannel, "managingEditor"), "Editor: ")
  \o OptLabel(Present(DocChannel, "description"), "Description: ")

ExpectedBlock(item) ==
  <<"Title: ">>
  \o OptLabel(Present(item, "author"), "Author: ")
  \o OptLabel(Present(item, "pubDate"), "Published: ")
  \o OptLabel(Present(item, "link"), "Link: ")
  \o OptLabel(HasCategory(item), "Categories: ")
  \o <<"", "Description: ", "">>

RECURSIVE ExpectedBlocks(_)
ExpectedBlocks(items) ==
  IF Len(items) = 0 THEN <<>>
  ELSE ExpectedBlock(Head(items)) \o ExpectedBlocks(Tail(items))

====
